---- MODULE Spec2Model ----
(***************************************************************************)
(* The command model and reply codes of src/include/commands.h and the     *)
(* SFTP permissions-change operation of src/engine/sftp/chmod.cpp.         *)
(*                                                                         *)
(* Three specifications share the variables:                               *)
(*   Spec      the CSftpChmodOpData state machine, driven by the engine's  *)
(*             loop and, besides, called out of turn (contract violations) *)
(*   SpecCodes FZ_REPLY_* values composed with bitwise OR                  *)
(*   SpecCmd   command objects: construction, valid(), Clone(),            *)
(*             ExtractFiles()                                              *)
(***************************************************************************)
EXTENDS Integers, Sequences, FiniteSets, TLC

VARIABLES
    \* ---- CSftpChmodOpData and its collaborators
    opState,        \* COpData::opState, a chmodStates value
    useAbsolute_,   \* CSftpChmodOpData::useAbsolute_
    command_,       \* the CChmodCommand the operation owns
    result_,        \* controlSocket_.result_, the transport's last reply
    ret,            \* return value of the last step called
    last,           \* the last step called: which, in which state, with what
    phase,          \* what the driver loop does next
    terminal,       \* the Reply Code yielded to the dispatcher
    childPending,   \* a nested change-directory operation is running
    childReply,     \* the Reply Code the nested operation ended with
    inflight,       \* protocol actions the transport accepted and has not answered
    trace,          \* collaborator calls, in order
    calls,          \* number of step calls so far
    round,          \* which run of the command this is
    hist,           \* the steps of this run: step, input, state and code after
    prev,           \* what the run before this one did
    \* ---- reply codes
    acc,            \* a Reply Code composed from the named values
    ncomb,          \* number of compositions made
    \* ---- command objects
    objs,           \* object slot -> command object
    heap,           \* std::vector buffer id -> its elements
    cmdLast         \* the last operation on a command object

opVars == <<opState, useAbsolute_, command_, result_, ret, last, phase,
            terminal, childPending, childReply, inflight, trace, calls,
            round, hist, prev>>
codeVars == <<acc, ncomb>>
cmdVars == <<objs, heap, cmdLast>>
vars == <<opVars, codeVars, cmdVars>>

-----------------------------------------------------------------------------
(* Bounds of the model *)

\* step calls made on one operation
MaxCalls == 6
\* compositions of reply codes
MaxCombine == 2
\* command objects alive at once
MaxObjs == 3

-----------------------------------------------------------------------------
(* Bitwise operations on non-negative ints *)

RECURSIVE BitAnd(_, _)
BitAnd(a, b) ==
    IF a = 0 \/ b = 0 THEN 0
    ELSE (a % 2) * (b % 2) + 2 * BitAnd(a \div 2, b \div 2)

\* composition by addition instead of bitwise OR
BitOr_plus(a, b) == a + b

RECURSIVE BitOr(_, _)
BitOr(a, b) ==
    IF a = 0 THEN b
    ELSE IF b = 0 THEN a
    ELSE (IF a % 2 = 1 \/ b % 2 = 1 THEN 1 ELSE 0) + 2 * BitOr(a \div 2, b \div 2)

-----------------------------------------------------------------------------
(* Reply codes, commands.h:47-68 *)

FZ_REPLY_OK == 0
FZ_REPLY_WOULDBLOCK == 1
FZ_REPLY_ERROR == 2
FZ_REPLY_CRITICALERROR == BitOr(4, FZ_REPLY_ERROR)
FZ_REPLY_CANCELED == BitOr(8, FZ_REPLY_ERROR)
FZ_REPLY_SYNTAXERROR == BitOr(16, FZ_REPLY_ERROR)
FZ_REPLY_NOTCONNECTED == BitOr(32, FZ_REPLY_ERROR)
FZ_REPLY_DISCONNECTED == 64
FZ_REPLY_INTERNALERROR == BitOr(128, FZ_REPLY_ERROR)
FZ_REPLY_BUSY == BitOr(256, FZ_REPLY_ERROR)
FZ_REPLY_ALREADYCONNECTED == BitOr(512, FZ_REPLY_ERROR)
FZ_REPLY_PASSWORDFAILED == 1024
FZ_REPLY_TIMEOUT_noerror == BitOr(2048, FZ_REPLY_OK)
FZ_REPLY_TIMEOUT == BitOr(2048, FZ_REPLY_ERROR)
FZ_REPLY_NOTSUPPORTED == BitOr(4096, FZ_REPLY_ERROR)
FZ_REPLY_WRITEFAILED == BitOr(8192, FZ_REPLY_ERROR)
FZ_REPLY_LINKNOTDIR == BitOr(16384, FZ_REPLY_ERROR)
FZ_REPLY_CONTINUE == 32768
FZ_REPLY_ERROR_NOTFOUND == BitOr(65536, FZ_REPLY_ERROR)

\* no Reply Code (nothing returned yet)
NoReply == 0 - 1

\* the generic-error bit test, as in `res & FZ_REPLY_ERROR`
is_error(code) == BitAnd(code, FZ_REPLY_ERROR) # 0
\* the continue bit test
is_continue(code) == BitAnd(code, FZ_REPLY_CONTINUE) # 0
\* the bit that sets FZ_REPLY_ERROR_NOTFOUND apart from FZ_REPLY_ERROR
NotFoundBit == FZ_REPLY_ERROR_NOTFOUND - BitAnd(FZ_REPLY_ERROR_NOTFOUND, FZ_REPLY_ERROR)
HasInternalBit(code) ==
    is_continue(code) \/ BitAnd(code, NotFoundBit) # 0

\* the values documented as implying FZ_REPLY_ERROR
ImpliesError ==
    { FZ_REPLY_CRITICALERROR, FZ_REPLY_CANCELED, FZ_REPLY_SYNTAXERROR,
      FZ_REPLY_NOTCONNECTED, FZ_REPLY_INTERNALERROR, FZ_REPLY_BUSY,
      FZ_REPLY_ALREADYCONNECTED, FZ_REPLY_TIMEOUT, FZ_REPLY_NOTSUPPORTED,
      FZ_REPLY_WRITEFAILED, FZ_REPLY_LINKNOTDIR, FZ_REPLY_ERROR_NOTFOUND }

\* every named value
NamedReplies ==
    ImpliesError \cup
    { FZ_REPLY_OK, FZ_REPLY_WOULDBLOCK, FZ_REPLY_ERROR, FZ_REPLY_DISCONNECTED,
      FZ_REPLY_PASSWORDFAILED, FZ_REPLY_CONTINUE }

-----------------------------------------------------------------------------
(* enum chmodStates, chmod.cpp:7-12 *)

chmod_init == 0
chmod_waitcwd == 1
chmod_chmod == 2

-----------------------------------------------------------------------------
(* Collaborators of the operation *)

\* what a nested change-directory can end with: every named value and two
\* composed ones
ChildReplies ==
    NamedReplies \cup
    { BitOr(FZ_REPLY_ERROR, FZ_REPLY_DISCONNECTED),
      BitOr(FZ_REPLY_CONTINUE, FZ_REPLY_ERROR) }

\* what the transport can report for an action it accepted
TransportReplies ==
    (NamedReplies \ {FZ_REPLY_CONTINUE, FZ_REPLY_WOULDBLOCK}) \cup
    { BitOr(FZ_REPLY_ERROR, FZ_REPLY_DISCONNECTED) }

\* what controlSocket_.SendCommand returns: the action was accepted and the
\* reply is awaited, or it could not be sent
SendResults ==
    { FZ_REPLY_WOULDBLOCK, FZ_REPLY_ERROR,
      BitOr(FZ_REPLY_ERROR, FZ_REPLY_DISCONNECTED) }

\* CServerPath::FormatFilename(file, omitPath) of a unix-style path
FormatFilename(path, file, omitPath) ==
    IF omitPath THEN file
    ELSE IF path = "/" THEN path \o file
    ELSE path \o "/" \o file

\* CSftpControlSocket::QuoteFilename (no name here holds a quote to double)
QuoteFilename(filename) == "\"" \o filename \o "\""

\* one collaborator call, made while the operation was in state `at`
Event(kind, at, a, b) == [ev |-> kind, at |-> at, a |-> a, b |-> b]

\* the chmod commands the dispatcher hands over (pre-validated)
ChmodCommands ==
    { [m_path |-> p, m_file |-> f, m_permission |-> m] :
        p \in {"/home/u", "/"}, f \in {"a.txt", "b"}, m \in {"755", "644"} }

-----------------------------------------------------------------------------
(* CSftpChmodOpData, chmod.cpp:15-52 *)

\* Send with the action handed to the transport before the cache entry is
\* invalidated
Send_sendBeforeUpdateFile(sendRes) ==
    IF opState = chmod_init THEN
        /\ trace' = trace \o
              << Event("log", opState,
                       FormatFilename(command_.m_path, command_.m_file, FALSE),
                       command_.m_permission),
                 Event("ChangeDir", opState, command_.m_path, "") >>
        /\ childPending' = TRUE
        /\ opState' = chmod_waitcwd
        /\ ret' = FZ_REPLY_CONTINUE
        /\ UNCHANGED <<useAbsolute_, inflight>>
    ELSE IF opState = chmod_chmod THEN
        /\ trace' = trace \o
              << Event("SendCommand", opState,
                       "chmod " \o command_.m_permission \o " " \o
                           QuoteFilename(FormatFilename(command_.m_path,
                                                        command_.m_file,
                                                        ~useAbsolute_)),
                       sendRes),
                 Event("UpdateFile", opState,
                       <<command_.m_path, command_.m_file>>,
                       <<FALSE, "unknown">>) >>
        /\ inflight' = IF sendRes = FZ_REPLY_WOULDBLOCK THEN inflight + 1 ELSE inflight
        /\ ret' = sendRes
        /\ UNCHANGED <<opState, useAbsolute_, childPending>>
    ELSE
        /\ ret' = FZ_REPLY_INTERNALERROR
        /\ UNCHANGED <<opState, useAbsolute_, childPending, inflight, trace>>

\* Send that treats every state but init as chmod (no fall-through to
\* FZ_REPLY_INTERNALERROR)
Send_noFallThrough(sendRes) ==
    IF opState = chmod_init THEN
        /\ trace' = trace \o
              << Event("log", opState,
                       FormatFilename(command_.m_path, command_.m_file, FALSE),
                       command_.m_permission),
                 Event("ChangeDir", opState, command_.m_path, "") >>
        /\ childPending' = TRUE
        /\ opState' = chmod_waitcwd
        /\ ret' = FZ_REPLY_CONTINUE
        /\ UNCHANGED <<useAbsolute_, inflight>>
    ELSE
        /\ trace' = trace \o
              << Event("UpdateFile", opState,
                       <<command_.m_path, command_.m_file>>,
                       <<FALSE, "unknown">>),
                 Event("SendCommand", opState,
                       "chmod " \o command_.m_permission \o " " \o
                           QuoteFilename(FormatFilename(command_.m_path,
                                                        command_.m_file,
                                                        ~useAbsolute_)),
                       sendRes) >>
        /\ inflight' = IF sendRes = FZ_REPLY_WOULDBLOCK THEN inflight + 1 ELSE inflight
        /\ ret' = sendRes
        /\ UNCHANGED <<opState, useAbsolute_, childPending>>

\* Send that writes the status message in state chmod as well
Send_logInChmod(sendRes) ==
    IF opState = chmod_init THEN
        /\ trace' = trace \o
              << Event("log", opState,
                       FormatFilename(command_.m_path, command_.m_file, FALSE),
                       command_.m_permission),
                 Event("ChangeDir", opState, command_.m_path, "") >>
        /\ childPending' = TRUE
        /\ opState' = chmod_waitcwd
        /\ ret' = FZ_REPLY_CONTINUE
        /\ UNCHANGED <<useAbsolute_, inflight>>
    ELSE IF opState = chmod_chmod THEN
        /\ trace' = trace \o
              << Event("log", opState,
                       FormatFilename(command_.m_path, command_.m_file, FALSE),
                       command_.m_permission),
                 Event("UpdateFile", opState,
                       <<command_.m_path, command_.m_file>>,
                       <<FALSE, "unknown">>),
                 Event("SendCommand", opState,
                       "chmod " \o command_.m_permission \o " " \o
                           QuoteFilename(FormatFilename(command_.m_path,
                                                        command_.m_file,
                                                        ~useAbsolute_)),
                       sendRes) >>
        /\ inflight' = IF sendRes = FZ_REPLY_WOULDBLOCK THEN inflight + 1 ELSE inflight
        /\ ret' = sendRes
        /\ UNCHANGED <<opState, useAbsolute_, childPending>>
    ELSE
        /\ ret' = FZ_REPLY_INTERNALERROR
        /\ UNCHANGED <<opState, useAbsolute_, childPending, inflight, trace>>

\* Send that answers continue after handing the line to the transport
Send_continueAfterSend(sendRes) ==
    IF opState = chmod_init THEN
        /\ trace' = trace \o
              << Event("log", opState,
                       FormatFilename(command_.m_path, command_.m_file, FALSE),
                       command_.m_permission),
                 Event("ChangeDir", opState, command_.m_path, "") >>
        /\ childPending' = TRUE
        /\ opState' = chmod_waitcwd
        /\ ret' = FZ_REPLY_CONTINUE
        /\ UNCHANGED <<useAbsolute_, inflight>>
    ELSE IF opState = chmod_chmod THEN
        /\ trace' = trace \o
              << Event("UpdateFile", opState,
                       <<command_.m_path, command_.m_file>>,
                       <<FALSE, "unknown">>),
                 Event("SendCommand", opState,
                       "chmod " \o command_.m_permission \o " " \o
                           QuoteFilename(FormatFilename(command_.m_path,
                                                        command_.m_file,
                                                        ~useAbsolute_)),
                       sendRes) >>
        /\ inflight' = IF sendRes = FZ_REPLY_WOULDBLOCK THEN inflight + 1 ELSE inflight
        /\ ret' = FZ_REPLY_CONTINUE
        /\ UNCHANGED <<opState, useAbsolute_, childPending>>
    ELSE
        /\ ret' = FZ_REPLY_INTERNALERROR
        /\ UNCHANGED <<opState, useAbsolute_, childPending, inflight, trace>>

\* int CSftpChmodOpData::Send(); sendRes is what SendCommand returns
Send(sendRes) ==
    IF opState = chmod_init THEN
        /\ trace' = trace \o
              << Event("log", opState,
                       FormatFilename(command_.m_path, command_.m_file, FALSE),
                       command_.m_permission),
                 Event("ChangeDir", opState, command_.m_path, "") >>
        /\ childPending' = TRUE
        /\ opState' = chmod_waitcwd
        /\ ret' = FZ_REPLY_CONTINUE
        /\ UNCHANGED <<useAbsolute_, inflight>>
    ELSE IF opState = chmod_chmod THEN
        /\ trace' = trace \o
              << Event("UpdateFile", opState,
                       <<command_.m_path, command_.m_file>>,
                       <<FALSE, "unknown">>),
                 Event("SendCommand", opState,
                       "chmod " \o command_.m_permission \o " " \o
                           QuoteFilename(FormatFilename(command_.m_path,
                                                        command_.m_file,
                                                        ~useAbsolute_)),
                       sendRes) >>
        /\ inflight' = IF sendRes = FZ_REPLY_WOULDBLOCK THEN inflight + 1 ELSE inflight
        /\ ret' = sendRes
        /\ UNCHANGED <<opState, useAbsolute_, childPending>>
    ELSE
        /\ ret' = FZ_REPLY_INTERNALERROR
        /\ UNCHANGED <<opState, useAbsolute_, childPending, inflight, trace>>

\* ParseResponse that reduces the transport's reply to ok or generic error
ParseResponse_okOrError ==
    /\ ret' = IF result_' = FZ_REPLY_OK THEN FZ_REPLY_OK ELSE FZ_REPLY_ERROR
    /\ UNCHANGED <<opState, useAbsolute_, childPending, trace>>

\* int CSftpChmodOpData::ParseResponse()
ParseResponse ==
    /\ ret' = result_'
    /\ UNCHANGED <<opState, useAbsolute_, childPending, trace>>

\* SubcommandResult that gives up when the directory change failed
SubcommandResult_abortOnFail(prevResult) ==
    IF opState = chmod_waitcwd THEN
        IF prevResult # FZ_REPLY_OK THEN
            /\ ret' = prevResult
            /\ UNCHANGED <<opState, useAbsolute_, inflight, trace>>
        ELSE
            /\ opState' = chmod_chmod
            /\ ret' = FZ_REPLY_CONTINUE
            /\ UNCHANGED <<useAbsolute_, inflight, trace>>
    ELSE
        /\ ret' = FZ_REPLY_INTERNALERROR
        /\ UNCHANGED <<opState, useAbsolute_, inflight, trace>>

\* SubcommandResult that sets the flag whatever the child reported
SubcommandResult_alwaysAbsolute(prevResult) ==
    IF opState = chmod_waitcwd THEN
        /\ useAbsolute_' = TRUE
        /\ opState' = chmod_chmod
        /\ ret' = FZ_REPLY_CONTINUE
        /\ UNCHANGED <<inflight, trace>>
    ELSE
        /\ ret' = FZ_REPLY_INTERNALERROR
        /\ UNCHANGED <<opState, useAbsolute_, inflight, trace>>

\* SubcommandResult that answers continue in every state
SubcommandResult_noStateCheck(prevResult) ==
    IF opState = chmod_waitcwd THEN
        /\ useAbsolute_' = IF prevResult # FZ_REPLY_OK THEN TRUE ELSE useAbsolute_
        /\ opState' = chmod_chmod
        /\ ret' = FZ_REPLY_CONTINUE
        /\ UNCHANGED <<inflight, trace>>
    ELSE
        /\ ret' = FZ_REPLY_CONTINUE
        /\ UNCHANGED <<opState, useAbsolute_, inflight, trace>>

\* SubcommandResult that starts over when the directory change failed
SubcommandResult_retryOnFail(prevResult) ==
    IF opState = chmod_waitcwd THEN
        /\ useAbsolute_' = IF prevResult # FZ_REPLY_OK THEN TRUE ELSE useAbsolute_
        /\ opState' = IF prevResult # FZ_REPLY_OK THEN chmod_init ELSE chmod_chmod
        /\ ret' = FZ_REPLY_CONTINUE
        /\ UNCHANGED <<inflight, trace>>
    ELSE
        /\ ret' = FZ_REPLY_INTERNALERROR
        /\ UNCHANGED <<opState, useAbsolute_, inflight, trace>>

\* SubcommandResult that ORs the child's code into the continue it returns
SubcommandResult_orChildCode(prevResult) ==
    IF opState = chmod_waitcwd THEN
        /\ useAbsolute_' = IF prevResult # FZ_REPLY_OK THEN TRUE ELSE useAbsolute_
        /\ opState' = chmod_chmod
        /\ ret' = BitOr(FZ_REPLY_CONTINUE, prevResult)
        /\ UNCHANGED <<inflight, trace>>
    ELSE
        /\ ret' = FZ_REPLY_INTERNALERROR
        /\ UNCHANGED <<opState, useAbsolute_, inflight, trace>>

\* SubcommandResult that falls back only when the child's code has the error bit
SubcommandResult_onErrorBit(prevResult) ==
    IF opState = chmod_waitcwd THEN
        /\ useAbsolute_' = IF is_error(prevResult) THEN TRUE ELSE useAbsolute_
        /\ opState' = chmod_chmod
        /\ ret' = FZ_REPLY_CONTINUE
        /\ UNCHANGED <<inflight, trace>>
    ELSE
        /\ ret' = FZ_REPLY_INTERNALERROR
        /\ UNCHANGED <<opState, useAbsolute_, inflight, trace>>

\* SubcommandResult that records the fallback before it looks at the state
SubcommandResult_flagBeforeCheck(prevResult) ==
    IF opState = chmod_waitcwd THEN
        /\ useAbsolute_' = IF prevResult # FZ_REPLY_OK THEN TRUE ELSE useAbsolute_
        /\ opState' = chmod_chmod
        /\ ret' = FZ_REPLY_CONTINUE
        /\ UNCHANGED <<inflight, trace>>
    ELSE
        /\ useAbsolute_' = IF prevResult # FZ_REPLY_OK THEN TRUE ELSE useAbsolute_
        /\ ret' = FZ_REPLY_INTERNALERROR
        /\ UNCHANGED <<opState, inflight, trace>>

\* int CSftpChmodOpData::SubcommandResult(int prevResult, COpData const&)
SubcommandResult(prevResult) ==
    IF opState = chmod_waitcwd THEN
        /\ useAbsolute_' = IF prevResult # FZ_REPLY_OK THEN TRUE ELSE useAbsolute_
        /\ opState' = chmod_chmod
        /\ ret' = FZ_REPLY_CONTINUE
        /\ UNCHANGED <<inflight, trace>>
    ELSE
        /\ ret' = FZ_REPLY_INTERNALERROR
        /\ UNCHANGED <<opState, useAbsolute_, inflight, trace>>

-----------------------------------------------------------------------------
(* The engine's driver loop around the operation *)

\* what the loop does with a step's return value: continue runs the next
\* step (or the nested operation, when one was launched), would-block waits
\* for the transport, anything else ends the operation
Dispatch ==
    /\ calls' = calls + 1
    /\ IF is_continue(ret') THEN
           /\ phase' = IF childPending' THEN "waitchild" ELSE "run"
           /\ terminal' = terminal
       ELSE IF ret' = FZ_REPLY_WOULDBLOCK THEN
           /\ phase' = "waitreply"
           /\ terminal' = terminal
       ELSE
           /\ phase' = "done"
           /\ terminal' = ret'

\* what SendCommand answered if the step just made called it
SendOutcome ==
    IF Len(trace') > Len(trace) /\ trace'[Len(trace')].ev = "SendCommand"
    THEN trace'[Len(trace')].b
    ELSE NoReply

\* the record of a step; the run's history leaves the child's code out
Step(name, stray, arg) ==
    /\ last' = [step |-> name, stray |-> stray, state |-> opState,
                arg |-> arg, inflight |-> inflight]
    /\ hist' = Append(hist,
                      [step |-> name,
                       in |-> IF name = "Send" THEN SendOutcome
                              ELSE IF name = "ParseResponse" THEN arg
                              ELSE NoReply,
                       state |-> opState',
                       ret |-> ret'])
    /\ UNCHANGED <<round, prev>>

\* the loop calls drive-forward
DriveForward(sendRes) ==
    /\ phase = "run"
    /\ calls < MaxCalls
    /\ Send(sendRes)
    /\ Step("Send", FALSE, NoReply)
    /\ Dispatch
    /\ UNCHANGED <<command_, result_, childReply, codeVars, cmdVars>>

\* the nested change-directory ended with r and is reported to the parent
ChildDone(r) ==
    /\ phase = "waitchild"
    /\ childPending
    /\ calls < MaxCalls
    /\ childPending' = FALSE
    /\ childReply' = r
    /\ SubcommandResult(r)
    /\ Step("SubcommandResult", FALSE, r)
    /\ Dispatch
    /\ UNCHANGED <<command_, result_, codeVars, cmdVars>>

\* the transport reports r for the oldest action in flight
ResponseReceived(r) ==
    /\ phase = "waitreply"
    /\ inflight > 0
    /\ calls < MaxCalls
    /\ result_' = r
    /\ inflight' = inflight - 1
    /\ ParseResponse
    /\ Step("ParseResponse", FALSE, r)
    /\ Dispatch
    /\ UNCHANGED <<command_, childReply, codeVars, cmdVars>>

(* Calls out of turn: contract violations by the caller *)

\* drive-forward while the nested operation or the transport is awaited
StraySend(sendRes) ==
    /\ phase \in {"waitchild", "waitreply"}
    /\ calls < MaxCalls
    /\ Send(sendRes)
    /\ Step("Send", TRUE, NoReply)
    /\ Dispatch
    /\ UNCHANGED <<command_, result_, childReply, codeVars, cmdVars>>

\* sub-operation-completed with no nested operation pending
StraySubcommandResult(r) ==
    /\ phase \in {"run", "waitreply"}
    /\ ~childPending
    /\ calls < MaxCalls
    /\ UNCHANGED childPending
    /\ SubcommandResult(r)
    /\ Step("SubcommandResult", TRUE, r)
    /\ Dispatch
    /\ UNCHANGED <<command_, result_, childReply, codeVars, cmdVars>>

\* response-received with no action in flight
StrayResponse(r) ==
    /\ phase \in {"run", "waitchild"}
    /\ inflight = 0
    /\ calls < MaxCalls
    /\ result_' = r
    /\ ParseResponse
    /\ Step("ParseResponse", TRUE, r)
    /\ Dispatch
    /\ UNCHANGED <<command_, childReply, inflight, codeVars, cmdVars>>

-----------------------------------------------------------------------------
(* Specification of the operation *)

IdleCodes == acc = FZ_REPLY_OK /\ ncomb = 0
NoCmdOp == [op |-> "none", src |-> 0, dst |-> 0, before |-> <<>>]
IdleCmd == objs = <<>> /\ heap = <<>> /\ cmdLast = NoCmdOp

NoRun == [hist |-> <<>>, terminal |-> NoReply, child |-> NoReply]

InitOp ==
    /\ opState = chmod_init
    /\ useAbsolute_ = FALSE
    /\ command_ \in ChmodCommands
    /\ result_ = FZ_REPLY_OK
    /\ ret = NoReply
    /\ last = [step |-> "none", stray |-> FALSE, state |-> chmod_init,
               arg |-> NoReply, inflight |-> 0]
    /\ phase = "run"
    /\ terminal = NoReply
    /\ childPending = FALSE
    /\ childReply = NoReply
    /\ inflight = 0
    /\ trace = <<>>
    /\ calls = 0
    /\ round = 1
    /\ hist = <<>>
    /\ prev = NoRun

Init == InitOp /\ IdleCodes /\ IdleCmd

Next ==
    \/ \E s \in SendResults : DriveForward(s)
    \/ \E r \in ChildReplies : ChildDone(r)
    \/ \E r \in TransportReplies : ResponseReceived(r)
    \/ \E s \in SendResults : StraySend(s)
    \/ \E r \in ChildReplies : StraySubcommandResult(r)
    \/ \E r \in TransportReplies : StrayResponse(r)

Spec == Init /\ [][Next]_vars

\* the operation driven by the loop alone: every call is made in its turn
NextLive ==
    \/ \E s \in SendResults : DriveForward(s)
    \/ \E r \in ChildReplies : ChildDone(r)
    \/ \E r \in TransportReplies : ResponseReceived(r)

\* the loop keeps running, the child ends and is reported, the transport
\* delivers the reply of an accepted line
SpecLive ==
    /\ Init
    /\ [][NextLive]_vars
    /\ WF_vars(\E s \in SendResults : DriveForward(s))
    /\ WF_vars(\E r \in ChildReplies : ChildDone(r))
    /\ WF_vars(\E r \in TransportReplies : ResponseReceived(r))

\* the ended operation is kept for comparison and the same command is run
\* once more by a new operation
Restart ==
    /\ phase = "done"
    /\ round = 1
    /\ prev' = [hist |-> hist, terminal |-> terminal, child |-> childReply]
    /\ round' = round + 1
    /\ hist' = <<>>
    /\ opState' = chmod_init
    /\ useAbsolute_' = FALSE
    /\ result_' = FZ_REPLY_OK
    /\ ret' = NoReply
    /\ last' = [step |-> "none", stray |-> FALSE, state |-> chmod_init,
                arg |-> NoReply, inflight |-> 0]
    /\ phase' = "run"
    /\ terminal' = NoReply
    /\ childPending' = FALSE
    /\ childReply' = NoReply
    /\ inflight' = 0
    /\ trace' = <<>>
    /\ calls' = 0
    /\ UNCHANGED <<command_, codeVars, cmdVars>>

\* two runs of one command, one after the other, every call made in its turn
InitPair ==
    /\ Init
    /\ command_ = [m_path |-> "/home/u", m_file |-> "a.txt",
                   m_permission |-> "755"]

NextPair ==
    \/ \E s \in SendResults : DriveForward(s)
    \/ \E r \in ChildReplies : ChildDone(r)
    \/ \E r \in TransportReplies : ResponseReceived(r)
    \/ Restart

SpecPair == InitPair /\ [][NextPair]_vars

-----------------------------------------------------------------------------
(* Composition of reply codes *)

\* the operation at rest, for the specifications that are not about it
IdleOp == InitOp /\ command_ = [m_path |-> "/home/u", m_file |-> "a.txt",
                                m_permission |-> "755"]

\* a | c for a named value c
Combine(c) ==
    /\ ncomb < MaxCombine
    /\ acc' = BitOr(acc, c)
    /\ ncomb' = ncomb + 1
    /\ UNCHANGED <<opVars, cmdVars>>

InitCodes == IdleOp /\ acc \in NamedReplies /\ ncomb = 0 /\ IdleCmd

NextCodes == \E c \in NamedReplies : Combine(c)

SpecCodes == InitCodes /\ [][NextCodes]_vars

-----------------------------------------------------------------------------
(* enum class Command, commands.h:16-43 (the kinds modelled) *)

Command_disconnect == 2
Command_del == 5
Command_chmod == 9
Command_raw == 10

-----------------------------------------------------------------------------
(* Command objects, commands.h:74-109, 129, 271-298, 352-370 *)

\* CServerPath::empty()
PathEmpty(path) == path = ""

\* CCommandHelper<Derived, id>::GetId
GetId(c) == c.id

\* the elements of a delete command's files_ vector
GetFiles(c) == heap[c.files_]

\* CCommand::valid, kept by the kinds that do not override it
CCommand_valid(c) == TRUE

\* CRawCommand::valid
CRawCommand_valid(c) == ~(c.m_command = "")

\* valid() of a delete command with `or` for `and`
CDeleteCommand_valid_or(c) == ~PathEmpty(c.m_path) \/ ~(GetFiles(c) = <<>>)

\* CDeleteCommand::valid
CDeleteCommand_valid(c) == ~PathEmpty(c.m_path) /\ ~(GetFiles(c) = <<>>)

\* CChmodCommand::valid
CChmodCommand_valid(c) ==
    ~PathEmpty(c.m_path) /\ ~(c.m_file = "") /\ ~(c.m_permission = "")

\* the virtual call c->valid()
valid(c) ==
    CASE GetId(c) = Command_raw -> CRawCommand_valid(c)
      [] GetId(c) = Command_del -> CDeleteCommand_valid(c)
      [] GetId(c) = Command_chmod -> CChmodCommand_valid(c)
      [] OTHER -> CCommand_valid(c)

\* what a caller can observe of a command: its kind, its fields (the files
\* by value) and its validity
View(c) ==
    [id |-> GetId(c),
     fields |-> IF GetId(c) = Command_del
                THEN [m_path |-> c.m_path, files_ |-> GetFiles(c)]
                ELSE c,
     valid |-> valid(c)]

Views == [k \in DOMAIN objs |-> View(objs[k])]

\* the constructors: the fields are stored as given
CDisconnectCommand == [id |-> Command_disconnect]
CRawCommand(command) == [id |-> Command_raw, m_command |-> command]
CChmodCommand(path, file, permission) ==
    [id |-> Command_chmod, m_path |-> path, m_file |-> file,
     m_permission |-> permission]
\* files_ names the vector's buffer on the heap
CDeleteCommand(path, buffer) ==
    [id |-> Command_del, m_path |-> path, files_ |-> buffer]

\* the values the callers construct commands from
SomePaths == {"", "/home/u"}
SomeFiles == {"", "a.txt"}
SomePermissions == {"", "755"}
SomeLines == {"", "SITE HELP"}
SomeFileLists == {<<>>, <<"a.txt">>, <<"a.txt", "b">>}

\* Clone that copies the vector's handle, not its elements
Clone_shallow(i) ==
    /\ i \in DOMAIN objs
    /\ Len(objs) < MaxObjs
    /\ objs' = Append(objs, objs[i])
    /\ heap' = heap
    /\ cmdLast' = [op |-> "Clone", src |-> i, dst |-> Len(objs) + 1,
                   before |-> Views]
    /\ UNCHANGED <<opVars, codeVars>>

\* CCommandHelper::Clone: new Derived(*this), the implicit copy constructor;
\* a std::vector member is copied into a buffer of its own
Clone(i) ==
    /\ i \in DOMAIN objs
    /\ Len(objs) < MaxObjs
    /\ IF GetId(objs[i]) = Command_del THEN
           /\ heap' = Append(heap, GetFiles(objs[i]))
           /\ objs' = Append(objs, [objs[i] EXCEPT !.files_ = Len(heap) + 1])
       ELSE
           /\ heap' = heap
           /\ objs' = Append(objs, objs[i])
    /\ cmdLast' = [op |-> "Clone", src |-> i, dst |-> Len(objs) + 1,
                   before |-> Views]
    /\ UNCHANGED <<opVars, codeVars>>

\* CDeleteCommand::ExtractFiles: returns std::move(files_); the vector is
\* left empty when the caller moves from the reference (consumed), and as it
\* was when the caller only binds it
ExtractFiles(i, consumed) ==
    /\ i \in DOMAIN objs
    /\ GetId(objs[i]) = Command_del
    /\ heap' = IF consumed THEN [heap EXCEPT ![objs[i].files_] = <<>>] ELSE heap
    /\ objs' = objs
    /\ cmdLast' = [op |-> "ExtractFiles", src |-> i, dst |-> i,
                   before |-> Views]
    /\ UNCHANGED <<opVars, codeVars>>

InitCmd ==
    /\ IdleOp
    /\ IdleCodes
    /\ cmdLast = NoCmdOp
    /\ \/ /\ objs = <<CDisconnectCommand>>
          /\ heap = <<>>
       \/ \E l \in SomeLines :
             /\ objs = <<CRawCommand(l)>>
             /\ heap = <<>>
       \/ \E p \in SomePaths, f \in SomeFiles, m \in SomePermissions :
             /\ objs = <<CChmodCommand(p, f, m)>>
             /\ heap = <<>>
       \/ \E p \in SomePaths, fs \in SomeFileLists :
             /\ objs = <<CDeleteCommand(p, 1)>>
             /\ heap = <<fs>>

NextCmd ==
    \/ \E i \in 1..MaxObjs : Clone(i)
    \/ \E i \in 1..MaxObjs, consumed \in BOOLEAN : ExtractFiles(i, consumed)

SpecCmd == InitCmd /\ [][NextCmd]_vars

-----------------------------------------------------------------------------
(* Properties of the permissions-change operation *)

\* the indices of the trace at which a chmod action was handed to the transport
SendCommandAt == { i \in DOMAIN trace : trace[i].ev = "SendCommand" }
UpdateFileAt == { i \in DOMAIN trace : trace[i].ev = "UpdateFile" }

\* the protocol line that addresses the command's file by its full path
AbsoluteLine(c) ==
    "chmod " \o c.m_permission \o " \"" \o
    (IF c.m_path = "/" THEN "/" ELSE c.m_path \o "/") \o c.m_file \o "\""
\* the protocol line that addresses the command's file by its bare name
RelativeLine(c) ==
    "chmod " \o c.m_permission \o " \"" \o c.m_file \o "\""

\* the request of the spec's scenarios
ScenarioCommand ==
    [m_path |-> "/home/u", m_file |-> "a.txt", m_permission |-> "755"]

\* C1: in state waitcwd, SubcommandResult called with a child Reply Code other
\* than ok returns continue and moves to state chmod without ending the
\* operation, and every permission-change action then emitted is addressed by
\* the file's absolute path.
C1_FallbackOnFailedCwd ==
    /\ (last.step = "SubcommandResult" /\ last.state = chmod_waitcwd
            /\ last.arg # FZ_REPLY_OK)
        => /\ ret = FZ_REPLY_CONTINUE
           /\ opState = chmod_chmod
           /\ phase = "run"
           /\ terminal = NoReply
    /\ (childReply # NoReply /\ childReply # FZ_REPLY_OK)
        => \A i \in SendCommandAt : trace[i].a = AbsoluteLine(command_)
    /\ (childReply # NoReply /\ childReply # FZ_REPLY_OK
            /\ last.step = "Send" /\ last.state = chmod_chmod)
        => /\ trace # <<>>
           /\ trace[Len(trace)].ev = "SendCommand"
           /\ trace[Len(trace)].a = AbsoluteLine(command_)

C1_Witness ==
    /\ command_ = ScenarioCommand
    /\ childReply = FZ_REPLY_ERROR
    /\ last.step = "Send" /\ ~last.stray /\ last.state = chmod_chmod
    /\ trace[Len(trace)].a = "chmod 755 \"/home/u/a.txt\""
    /\ phase = "waitreply"

\* C2: when the nested change-directory ends with exactly ok, the flag
\* useAbsolute_ is never set and every permission-change action emitted is
\* addressed by the bare file name.
C2_RelativeOnOk ==
    /\ (childReply = NoReply) => ~useAbsolute_
    /\ (childReply = FZ_REPLY_OK)
        => /\ ~useAbsolute_
           /\ \A i \in SendCommandAt :
                 /\ trace[i].at = chmod_chmod
                 /\ trace[i].a = RelativeLine(command_)
           /\ (last.step = "Send" /\ last.state = chmod_chmod)
                 => /\ trace # <<>>
                    /\ trace[Len(trace)].a = RelativeLine(command_)

C2_Witness ==
    /\ command_ = ScenarioCommand
    /\ childReply = FZ_REPLY_OK
    /\ last.step = "Send" /\ ~last.stray /\ last.state = chmod_chmod
    /\ trace[Len(trace)].a = "chmod 755 \"a.txt\""
    /\ ~useAbsolute_

\* C3 (as amended): a call in a state/step combination the state machine does
\* not cover reports internal-error: Send in state waitcwd, SubcommandResult in
\* state init or chmod. Send in state chmod is covered on every call: also a
\* second Send after the action was emitted and before its response
\* invalidates the cache entry, hands the action to the transport again and
\* returns what the transport's send returned.
C3_UncoveredCombinations ==
    /\ (last.step = "Send" /\ last.state = chmod_waitcwd)
        => ret = FZ_REPLY_INTERNALERROR /\ terminal = FZ_REPLY_INTERNALERROR
    /\ (last.step = "SubcommandResult" /\ last.state # chmod_waitcwd)
        => ret = FZ_REPLY_INTERNALERROR /\ terminal = FZ_REPLY_INTERNALERROR
    /\ (last.step = "Send" /\ last.state = chmod_chmod)
        => /\ Len(trace) >= 2
           /\ trace[Len(trace)].ev = "SendCommand"
           /\ trace[Len(trace) - 1].ev = "UpdateFile"
           /\ ret = trace[Len(trace)].b
    /\ (last.step = "Send" /\ last.stray /\ last.state = chmod_chmod)
        => Cardinality(SendCommandAt) >= 2

C3_Witness ==
    /\ last.step = "Send" /\ last.stray /\ last.state = chmod_chmod
    /\ last.inflight = 1
    /\ Cardinality(SendCommandAt) = 2
    /\ ret = FZ_REPLY_WOULDBLOCK

\* C3 (as stated): a call in an uncovered state/step combination reports
\* internal-error, and a second Send from state chmod, after the action was
\* emitted and before its response, returns internal-error and does not emit
\* the action a second time.
C3_SecondSendRejected ==
    /\ (last.step = "Send" /\ last.state = chmod_waitcwd)
        => ret = FZ_REPLY_INTERNALERROR
    /\ (last.step = "SubcommandResult" /\ last.state # chmod_waitcwd)
        => ret = FZ_REPLY_INTERNALERROR
    /\ (last.step = "Send" /\ last.state = chmod_chmod /\ last.inflight >= 1)
        => ret = FZ_REPLY_INTERNALERROR /\ Cardinality(SendCommandAt) <= 1

\* C4: SubcommandResult called with no child pending (state init or chmod)
\* yields internal-error, which ends the operation: no step is called and no
\* collaborator is used afterwards.
C4_NoChildPending ==
    /\ [](last.step = "SubcommandResult" /\ last.stray
            => /\ last.state \in {chmod_init, chmod_chmod}
               /\ ret = FZ_REPLY_INTERNALERROR
               /\ terminal = FZ_REPLY_INTERNALERROR
               /\ phase = "done")
    /\ [][(last.step = "SubcommandResult" /\ last.stray)
            => /\ last' = last
               /\ trace' = trace
               /\ calls' = calls]_vars

C4_Witness ==
    /\ last.step = "SubcommandResult" /\ last.stray
    /\ last.state = chmod_chmod
    /\ ret = FZ_REPLY_INTERNALERROR
    /\ phase = "done"
    /\ SendCommandAt = {}

\* C5: ParseResponse returns the Reply Code the transport reported, unchanged,
\* and that code is the operation's terminal Reply Code, in every state and
\* in both addressing modes.
C5_PassThrough ==
    (last.step = "ParseResponse")
        => /\ ret = last.arg
           /\ result_ = last.arg
           /\ terminal = last.arg
           /\ phase = "done"

C5_Witness ==
    /\ last.step = "ParseResponse" /\ ~last.stray
    /\ last.state = chmod_chmod
    /\ last.arg = FZ_REPLY_CRITICALERROR
    /\ terminal = FZ_REPLY_CRITICALERROR
    /\ useAbsolute_

\* C7: whatever the nested change-directory ended with, and when the reply the
\* transport reported carries neither internal bit, the terminal Reply Code
\* has neither the continue bit nor the not-found bit set.
C7_InternalBitsStayInside ==
    (/\ terminal # NoReply
     /\ last.step = "ParseResponse" => ~HasInternalBit(last.arg))
        => ~HasInternalBit(terminal)

C7_Witness ==
    /\ terminal # NoReply
    /\ childReply # NoReply
    /\ HasInternalBit(childReply)
    /\ last.step = "ParseResponse" /\ ~last.stray
    /\ ~HasInternalBit(last.arg)
    /\ is_error(terminal)

\* C10: every permission-change action handed to the transport is directly
\* preceded by one UpdateFile of the command's path and file with
\* trusted = false and state unknown; UpdateFile is called in state chmod only
\* and once per action, in both addressing modes.
C10_CacheInvalidatedFirst ==
    /\ \A i \in SendCommandAt :
          /\ i > 1
          /\ trace[i - 1].ev = "UpdateFile"
          /\ trace[i - 1].a = <<command_.m_path, command_.m_file>>
          /\ trace[i - 1].b = <<FALSE, "unknown">>
    /\ \A i \in UpdateFileAt :
          /\ trace[i].at = chmod_chmod
          /\ i < Len(trace)
          /\ trace[i + 1].ev = "SendCommand"
    /\ Cardinality(UpdateFileAt) = Cardinality(SendCommandAt)
    /\ opState # chmod_chmod => UpdateFileAt = {}

C10_Witness ==
    /\ Cardinality(SendCommandAt) = 1
    /\ Cardinality(UpdateFileAt) = 1
    /\ useAbsolute_
    /\ phase = "waitreply"

-----------------------------------------------------------------------------
(* Properties of the reply codes *)

\* the bit that sets a named value apart from the generic error
CategoryBit(c) == c - BitAnd(c, FZ_REPLY_ERROR)

\* C6: every named Reply Code documented as implying error has the
\* generic-error bit set, and so has every composed code that carries the
\* category bit of one of them; is_error is false for ok and would-block.
C6_ImpliesErrorHasErrorBit ==
    /\ \A c \in ImpliesError : is_error(c)
    /\ ~is_error(FZ_REPLY_OK)
    /\ ~is_error(FZ_REPLY_WOULDBLOCK)
    /\ (\E c \in ImpliesError : BitAnd(acc, CategoryBit(c)) # 0) => is_error(acc)
    /\ (acc \in {FZ_REPLY_OK, FZ_REPLY_WOULDBLOCK}) => ~is_error(acc)

C6_Witness ==
    /\ ncomb = 1
    /\ acc = BitOr(FZ_REPLY_DISCONNECTED, FZ_REPLY_TIMEOUT)
    /\ BitAnd(acc, CategoryBit(FZ_REPLY_TIMEOUT)) # 0
    /\ is_error(acc)

-----------------------------------------------------------------------------
(* Properties of the command objects *)

\* C8: valid() is false exactly when a required field of the command's kind
\* is empty: delete needs a path and a file; raw needs a line; chmod needs
\* path, file and permission; disconnect needs nothing.
C8_ValidIffRequiredFields ==
    \A k \in DOMAIN objs :
        LET c == objs[k] IN
        /\ (c.id = Command_del) =>
              (valid(c) <=> (c.m_path # "" /\ Len(heap[c.files_]) > 0))
        /\ (c.id = Command_raw) => (valid(c) <=> c.m_command # "")
        /\ (c.id = Command_chmod) =>
              (valid(c) <=>
                  (c.m_path # "" /\ c.m_file # "" /\ c.m_permission # ""))
        /\ (c.id = Command_disconnect) => valid(c)

C8_Witness ==
    /\ Len(objs) >= 2
    /\ objs[1].id = Command_del
    /\ objs[1].m_path # ""
    /\ heap[objs[1].files_] = <<>>
    /\ ~valid(objs[1])
    /\ valid(objs[2])

\* C9: a clone has the kind, the field values and the validity of its
\* original, cloning changes no object there was, and extracting the files of
\* one object (original or clone) changes no other object.
C9_CloneIndependence ==
    /\ (cmdLast.op = "Clone") =>
          /\ GetId(objs[cmdLast.dst]) = GetId(objs[cmdLast.src])
          /\ View(objs[cmdLast.dst]) = View(objs[cmdLast.src])
          /\ \A k \in DOMAIN cmdLast.before : View(objs[k]) = cmdLast.before[k]
    /\ (cmdLast.op = "ExtractFiles") =>
          \A k \in DOMAIN objs \ {cmdLast.src} :
              View(objs[k]) = cmdLast.before[k]

C9_Witness ==
    /\ cmdLast.op = "ExtractFiles"
    /\ cmdLast.src = 2
    /\ View(objs[2]).fields.files_ = <<>>
    /\ cmdLast.before[2].fields.files_ = <<"a.txt", "b">>
    /\ View(objs[1]).fields.files_ = <<"a.txt", "b">>
    /\ valid(objs[1])
    /\ ~valid(objs[2])

-----------------------------------------------------------------------------
(* Properties of the operation's state and frame *)

\* C11: the operation starts in state init, and under any sequence of Send,
\* ParseResponse and SubcommandResult calls its state changes only from init
\* to waitcwd (by Send) and from waitcwd to chmod (by SubcommandResult); no
\* state is entered again and chmod is never left.
C11_StateProgression ==
    /\ opState = chmod_init
    /\ [][\/ opState' = opState
          \/ /\ opState = chmod_init
             /\ opState' = chmod_waitcwd
             /\ last'.step = "Send"
          \/ /\ opState = chmod_waitcwd
             /\ opState' = chmod_chmod
             /\ last'.step = "SubcommandResult"]_vars

C11_Witness ==
    /\ opState = chmod_chmod
    /\ last.step = "Send" /\ last.stray
    /\ last.state = chmod_chmod
    /\ calls = 5
    /\ phase = "waitreply"

LogAt == { i \in DOMAIN trace : trace[i].ev = "log" }
ChangeDirAt == { i \in DOMAIN trace : trace[i].ev = "ChangeDir" }

\* C12: the status message naming the file and the permission is written
\* exactly once, by the Send call made in state init, before the nested
\* change-directory is launched and before any permission-change action, and
\* whatever the directory change and the permission change end with.
C12_StatusNoticeOnceAndFirst ==
    /\ (opState = chmod_init) => trace = <<>>
    /\ (opState # chmod_init) =>
          /\ LogAt = {1}
          /\ trace[1].at = chmod_init
          /\ trace[1].a =
                (IF command_.m_path = "/" THEN "/" ELSE command_.m_path \o "/")
                    \o command_.m_file
          /\ trace[1].b = command_.m_permission
          /\ ChangeDirAt = {2}
          /\ \A i \in SendCommandAt \cup UpdateFileAt : i > 2
    /\ (terminal # NoReply /\ opState # chmod_init) => Cardinality(LogAt) = 1

C12_Witness ==
    /\ terminal = FZ_REPLY_ERROR
    /\ childReply = FZ_REPLY_ERROR
    /\ last.step = "ParseResponse" /\ ~last.stray
    /\ LogAt = {1}
    /\ trace[1].a = "/home/u/a.txt"
    /\ trace[1].b = "755"
    /\ Cardinality(SendCommandAt) = 1


\* C13: while the nested change-directory is pending (state waitcwd) no step
\* of the parent adds a collaborator call: nothing is logged, no cache entry
\* is touched, nothing is delegated and no protocol action is emitted; a Send
\* call made in waitcwd returns internal-error; and a permission-change
\* action is on record only after SubcommandResult was called for the child.
C13_NoProgressWhileDelegating ==
    /\ [](opState = chmod_waitcwd =>
            /\ Len(trace) = 2
            /\ SendCommandAt = {}
            /\ UpdateFileAt = {})
    /\ []((last.step = "Send" /\ last.state = chmod_waitcwd) =>
            /\ ret = FZ_REPLY_INTERNALERROR
            /\ opState = chmod_waitcwd)
    /\ []((SendCommandAt # {} \/ UpdateFileAt # {}) =>
            /\ childReply # NoReply
            /\ ~childPending
            /\ opState = chmod_chmod)
    /\ [][opState = chmod_waitcwd => trace' = trace]_vars

C13_Witness ==
    /\ opState = chmod_waitcwd
    /\ last.step = "Send" /\ last.stray /\ last.state = chmod_waitcwd
    /\ ret = FZ_REPLY_INTERNALERROR
    /\ terminal = FZ_REPLY_INTERNALERROR
    /\ childPending
    /\ Len(trace) = 2


\* C14: with every call made in its turn, a child that ends and is reported
\* once, a transport that delivers one reply per accepted line and a loop
\* that keeps running, the operation eventually hands a terminal reply code
\* without the continue bit to the dispatcher, having delegated the directory
\* change exactly once and emitted at most one permission-change action.
C14_Termination ==
    /\ <>(terminal # NoReply)
    /\ [](terminal # NoReply =>
            /\ ~is_continue(terminal)
            /\ phase = "done"
            /\ Cardinality(ChangeDirAt) = 1
            /\ Cardinality(SendCommandAt) <= 1
            /\ inflight = 0
            /\ ~childPending)

C14_Witness ==
    /\ terminal = FZ_REPLY_OK
    /\ phase = "done"
    /\ last.step = "ParseResponse" /\ ~last.stray
    /\ calls = 4
    /\ Cardinality(ChangeDirAt) = 1
    /\ Cardinality(SendCommandAt) = 1
    /\ childReply = BitOr(FZ_REPLY_ERROR, FZ_REPLY_DISCONNECTED)


\* the second run has so far been called as the first was, the child's code
\* aside: the same steps with the same transport outcomes
SameCallsAsBefore ==
    /\ Len(hist) <= Len(prev.hist)
    /\ \A i \in DOMAIN hist :
          /\ hist[i].step = prev.hist[i].step
          /\ hist[i].in = prev.hist[i].in

\* C15: of two runs of the same command that get the same transport outcomes
\* and may differ in the Reply Code of the nested change-directory, the second
\* goes through the same states, returns the same value from every step and
\* ends with the same terminal Reply Code as the first; and in every run
\* SubcommandResult returns plain continue and the terminal code is the one
\* SendCommand returned or the one the transport delivered, so the child's
\* code is neither returned nor OR-ed into a code of the parent.
C15_ChildCodeOnlySelectsAddressing ==
    /\ (round = 2 /\ SameCallsAsBefore) =>
          /\ \A i \in DOMAIN hist :
                /\ hist[i].state = prev.hist[i].state
                /\ hist[i].ret = prev.hist[i].ret
          /\ (terminal # NoReply) =>
                /\ terminal = prev.terminal
                /\ Len(hist) = Len(prev.hist)
          /\ (terminal = NoReply) => Len(hist) < Len(prev.hist)
    /\ \A i \in DOMAIN hist :
          hist[i].step = "SubcommandResult" => hist[i].ret = FZ_REPLY_CONTINUE
    /\ (terminal # NoReply) =>
          terminal = (IF last.step = "ParseResponse"
                      THEN result_
                      ELSE trace[Len(trace)].b)

C15_Witness ==
    /\ round = 2
    /\ SameCallsAsBefore
    /\ terminal = FZ_REPLY_OK
    /\ prev.terminal = FZ_REPLY_OK
    /\ prev.child = FZ_REPLY_OK
    /\ childReply = BitOr(FZ_REPLY_ERROR, FZ_REPLY_DISCONNECTED)
    /\ useAbsolute_
    /\ Len(hist) = 4


\* bit k of a code
Bit(n, k) == (n \div 2^k) % 2
\* the bit positions the named values use
Bits == 0 .. 16
\* the bits of a named value that no other named value has
OwnBits(c) ==
    { k \in Bits : Bit(c, k) = 1 /\ \A d \in NamedReplies \ {c} : Bit(d, k) = 0 }

\* a | b is the bitwise OR; is_error follows the operands; ok is the
\* identity; composition is commutative, associative and idempotent
CompositionLaws ==
    /\ \A b \in NamedReplies :
          /\ \A k \in Bits :
                Bit(BitOr(acc, b), k) =
                    (IF Bit(acc, k) = 1 \/ Bit(b, k) = 1 THEN 1 ELSE 0)
          /\ BitOr(acc, b) \div 2^(Cardinality(Bits)) = 0
          /\ is_error(BitOr(acc, b)) <=> (is_error(acc) \/ is_error(b))
          /\ BitOr(acc, b) = BitOr(b, acc)
          /\ \A c \in NamedReplies :
                BitOr(BitOr(acc, b), c) = BitOr(acc, BitOr(b, c))
    /\ BitOr(acc, FZ_REPLY_OK) = acc
    /\ BitOr(FZ_REPLY_OK, acc) = acc
    /\ BitOr(acc, acc) = acc

\* the continue bit and the not-found bit are in no public value
InternalBitsApart ==
    /\ BitAnd(FZ_REPLY_CONTINUE, NotFoundBit) = 0
    /\ \A d \in NamedReplies \ {FZ_REPLY_CONTINUE, FZ_REPLY_ERROR_NOTFOUND} :
          ~HasInternalBit(d)
    /\ OwnBits(FZ_REPLY_CONTINUE) # {}
    /\ BitAnd(NotFoundBit, FZ_REPLY_ERROR) = 0

\* every named value but ok and the generic error has a bit of its own; ok
\* has no bit; the generic-error bit is in exactly the values implying error
OwnBitButOkAndError ==
    /\ \A c \in NamedReplies \ {FZ_REPLY_OK, FZ_REPLY_ERROR} : OwnBits(c) # {}
    /\ OwnBits(FZ_REPLY_OK) = {}
    /\ OwnBits(FZ_REPLY_ERROR) = {}
    /\ { d \in NamedReplies : is_error(d) } = ImpliesError \cup {FZ_REPLY_ERROR}

\* every named value has a bit of its own
OwnBitEach == \A c \in NamedReplies : OwnBits(c) # {}

\* C16: for a code a composed of named values and named values b and c,
\* a | b is the bitwise OR, is_error(a | b) holds iff is_error(a) or
\* is_error(b), ok is the identity, composition is commutative, associative
\* and idempotent; every named value other than ok and the generic error has
\* a bit that no other named value has; ok has no bit, and the generic-error
\* bit is shared by exactly the values that imply error; the two internal
\* bits are in no public value.
C16_CompositionAlgebra ==
    /\ CompositionLaws
    /\ OwnBitButOkAndError
    /\ InternalBitsApart

C16_Witness ==
    /\ ncomb = 2
    /\ acc = BitOr(BitOr(FZ_REPLY_WOULDBLOCK, FZ_REPLY_TIMEOUT), FZ_REPLY_CONTINUE)
    /\ is_error(acc)
    /\ is_continue(acc)
    /\ OwnBits(FZ_REPLY_ERROR) = {}
    /\ OwnBits(FZ_REPLY_TIMEOUT) # {}

\* C16 (as stated): the laws of composition hold and every named value has a
\* bit that no other named value uses.
C16_EveryCategoryOwnsABit ==
    /\ CompositionLaws
    /\ OwnBitEach
    /\ InternalBitsApart


\* C17: useAbsolute_ changes only in a SubcommandResult call made in state
\* waitcwd, and then from false to true for a child code other than ok; once
\* the child has been reported the flag is set exactly if its code was not ok
\* (would-block and disconnected, which carry no error bit, set it too), and
\* before that it is not set; no step clears it.
C17_AddressingDecidedOnce ==
    /\ [][useAbsolute_' # useAbsolute_ =>
            /\ last'.step = "SubcommandResult"
            /\ opState = chmod_waitcwd
            /\ last'.arg # FZ_REPLY_OK
            /\ useAbsolute_']_vars
    /\ [][useAbsolute_ => useAbsolute_']_vars
    /\ [](childReply # NoReply => (useAbsolute_ <=> childReply # FZ_REPLY_OK))
    /\ [](childReply = NoReply => ~useAbsolute_)

C17_Witness ==
    /\ childReply = FZ_REPLY_WOULDBLOCK
    /\ ~is_error(childReply)
    /\ useAbsolute_
    /\ last.step = "ParseResponse" /\ ~last.stray
    /\ calls = 4
    /\ \E i \in SendCommandAt : trace[i].a = "chmod 755 \"/home/u/a.txt\""


\* a step of the operation was called
StepCalled == calls' = calls + 1

\* C18: a Send or SubcommandResult call that returns internal-error (Send in
\* waitcwd, SubcommandResult in init or chmod, and no other) leaves opState
\* and useAbsolute_ as they were and calls no collaborator: nothing is
\* logged, no cache entry is touched, nothing is delegated, nothing is
\* emitted; a ParseResponse call leaves opState and useAbsolute_ as they were
\* and calls no collaborator either.
C18_RejectedStepsHaveNoEffect ==
    /\ [][(StepCalled /\ last'.step \in {"Send", "SubcommandResult"}
              /\ ret' = FZ_REPLY_INTERNALERROR) =>
            /\ opState' = opState
            /\ useAbsolute_' = useAbsolute_
            /\ trace' = trace
            /\ childPending' = childPending
            /\ inflight' = inflight
            /\ \/ last'.step = "Send" /\ opState = chmod_waitcwd
               \/ last'.step = "SubcommandResult" /\ opState # chmod_waitcwd]_vars
    /\ [][(StepCalled /\ last'.step = "Send" /\ opState = chmod_waitcwd) =>
            ret' = FZ_REPLY_INTERNALERROR]_vars
    /\ [][(StepCalled /\ last'.step = "SubcommandResult"
              /\ opState # chmod_waitcwd) =>
            ret' = FZ_REPLY_INTERNALERROR]_vars
    /\ [][(StepCalled /\ last'.step = "ParseResponse") =>
            /\ opState' = opState
            /\ useAbsolute_' = useAbsolute_
            /\ trace' = trace
            /\ childPending' = childPending]_vars

C18_Witness ==
    /\ last.step = "SubcommandResult" /\ last.stray
    /\ last.state = chmod_chmod
    /\ last.arg = FZ_REPLY_ERROR
    /\ ret = FZ_REPLY_INTERNALERROR
    /\ opState = chmod_chmod
    /\ ~useAbsolute_
    /\ childReply = FZ_REPLY_OK
    /\ Len(trace) = 2

====
